---------------------------- MODULE Spec2Model ----------------------------
(***************************************************************************)
(* A model of alga's ComplexField facade (src/alga/src/general/complex.rs) *)
(* over a small binary floating-point format.                              *)
(*                                                                         *)
(* The scalar type of the source is f32 / f64.  The model keeps the        *)
(* structure of an IEEE-754 binary format (NaN, signed infinities, signed  *)
(* zeros, subnormals, round-to-nearest-even, overflow to infinity) with a  *)
(* narrow significand and exponent range, so that every value of the       *)
(* format can be enumerated.  A finite value is  (+/-) mag * 2^-QuantumExp *)
(* where mag is a natural number of at most Precision significant bits.    *)
(***************************************************************************)
EXTENDS Integers, Sequences, FiniteSets

(***************************************************************************)
(* The floating-point format.                                              *)
(***************************************************************************)
Precision == 4

QuantumExp == 6

MaxExp == 6

RECURSIVE Pow2(_)
Pow2(n) == IF n = 0 THEN 1 ELSE 2 * Pow2(n - 1)

\* Number of quanta in 1.0.
Quantum == Pow2(QuantumExp)

\* Smallest magnitude with Precision+1 significant bits.
TwoP == Pow2(Precision)

\* Largest finite magnitude, in quanta (f32::MAX / f64::MAX).
MaxMag == (TwoP - 1) * Pow2(MaxExp)

\* Distance between neighbouring representable magnitudes at q.
RECURSIVE Spacing(_)
Spacing(q) == IF q < TwoP THEN 1 ELSE 2 * Spacing(q \div 2)

Representable(k) == k >= 0 /\ k <= MaxMag /\ k % Spacing(k) = 0

NaN == [cls |-> "nan", neg |-> FALSE, mag |-> 0]

Inf(neg) == [cls |-> "inf", neg |-> neg, mag |-> 0]

Fin(neg, k) == [cls |-> "fin", neg |-> neg, mag |-> k]

PosInf == Inf(FALSE)

NegInf == Inf(TRUE)

PosZero == Fin(FALSE, 0)

NegZero == Fin(TRUE, 0)

\* Zero::zero() and One::one() of the real type.
f_zero == PosZero

f_one == Fin(FALSE, Quantum)

Floats ==
  {NaN, PosInf, NegInf}
    \cup {Fin(n, k) : n \in BOOLEAN, k \in {j \in 0..MaxMag : Representable(j)}}

IsNaN(a) == a.cls = "nan"

IsInf(a) == a.cls = "inf"

IsFin(a) == a.cls = "fin"

\* The value of a non-NaN float on the extended real line, in quanta
\* (both zeros are 0; the infinities lie just outside the finite range).
Key(a) ==
  LET m == IF a.cls = "inf" THEN MaxMag + 1 ELSE a.mag
  IN  IF a.neg THEN 0 - m ELSE m

\* Round the non-negative rational n/d (in quanta) to the nearest
\* representable magnitude, ties to even; may exceed MaxMag.
RoundMag(n, d) ==
  LET q  == n \div d
      s  == Spacing(q)
      lo == (q \div s) * s
      r2 == 2 * (n - lo * d)
  IN  IF r2 < s * d THEN lo
      ELSE IF r2 > s * d THEN lo + s
      ELSE IF (lo \div s) % 2 = 0 THEN lo ELSE lo + s

\* The float nearest to (+/-) n/d quanta; overflow gives an infinity.
Round(neg, n, d) ==
  LET k == RoundMag(n, d)
  IN  IF k > MaxMag THEN Inf(neg) ELSE Fin(neg, k)

RECURSIVE ISqrtRec(_, _, _)
ISqrtRec(n, lo, hi) ==
  IF lo = hi THEN lo
  ELSE LET mid == (lo + hi + 1) \div 2
       IN  IF mid * mid <= n THEN ISqrtRec(n, mid, hi) ELSE ISqrtRec(n, lo, mid - 1)

\* Round sqrt(n) (n a natural number of squared quanta) to nearest, ties to even.
RoundSqrt(n) ==
  LET r  == ISqrtRec(n, 0, 2 * MaxMag)
      s  == Spacing(r)
      lo == (r \div s) * s
      m2 == (2 * lo + s) * (2 * lo + s)
  IN  IF 4 * n < m2 THEN lo
      ELSE IF 4 * n > m2 THEN lo + s
      ELSE IF (lo \div s) % 2 = 0 THEN lo ELSE lo + s

(***************************************************************************)
(* IEEE-754 arithmetic and comparisons of the real type.                   *)
(***************************************************************************)
\* PartialEq / PartialOrd of f32, f64: false on NaN, -0 == +0.
feq(a, b) == ~IsNaN(a) /\ ~IsNaN(b) /\ Key(a) = Key(b)

fge(a, b) == ~IsNaN(a) /\ ~IsNaN(b) /\ Key(a) >= Key(b)

\* Zero::is_zero of the real type: self == 0.0.
f_is_zero(a) == feq(a, f_zero)

\* Neg for the real type.
fneg(a) == IF IsNaN(a) THEN NaN ELSE [a EXCEPT !.neg = ~a.neg]

fabs(a) == IF IsNaN(a) THEN NaN ELSE [a EXCEPT !.neg = FALSE]

fadd(a, b) ==
  IF IsNaN(a) \/ IsNaN(b) THEN NaN
  ELSE IF IsInf(a) /\ IsInf(b) THEN (IF a.neg = b.neg THEN a ELSE NaN)
  ELSE IF IsInf(a) THEN a
  ELSE IF IsInf(b) THEN b
  ELSE LET sum == Key(a) + Key(b)
       IN  IF sum = 0 THEN Fin(a.neg /\ b.neg, 0)
           ELSE IF sum < 0 THEN Round(TRUE, 0 - sum, 1)
           ELSE Round(FALSE, sum, 1)

fsub(a, b) == fadd(a, fneg(b))

fmul(a, b) ==
  LET neg == a.neg /= b.neg
  IN  IF IsNaN(a) \/ IsNaN(b) THEN NaN
      ELSE IF IsInf(a) \/ IsInf(b)
        THEN (IF f_is_zero(a) \/ f_is_zero(b) THEN NaN ELSE Inf(neg))
      ELSE Round(neg, a.mag * b.mag, Quantum)

fdiv(a, b) ==
  LET neg == a.neg /= b.neg
  IN  IF IsNaN(a) \/ IsNaN(b) THEN NaN
      ELSE IF IsInf(a) THEN (IF IsInf(b) THEN NaN ELSE Inf(neg))
      ELSE IF IsInf(b) THEN Fin(neg, 0)
      ELSE IF b.mag = 0 THEN (IF a.mag = 0 THEN NaN ELSE Inf(neg))
      ELSE Round(neg, a.mag * Quantum, b.mag)

fsqrt(a) ==
  IF IsNaN(a) THEN NaN
  ELSE IF IsFin(a) /\ a.mag = 0 THEN a
  ELSE IF a.neg THEN NaN
  ELSE IF IsInf(a) THEN a
  ELSE Fin(FALSE, RoundSqrt(a.mag * Quantum))

fhypot(a, b) ==
  IF IsInf(a) \/ IsInf(b) THEN PosInf
  ELSE IF IsNaN(a) \/ IsNaN(b) THEN NaN
  ELSE LET k == RoundSqrt(a.mag * a.mag + b.mag * b.mag)
       IN  IF k > MaxMag THEN PosInf ELSE Fin(FALSE, k)

(***************************************************************************)
(* The platform's math library ($libm, and RealField's methods on N).      *)
(* Each table lists the correctly rounded result, in quanta, for every     *)
(* positive finite value of the format in increasing order; an entry       *)
(* above MaxMag stands for an overflow to infinity.                        *)
(***************************************************************************)
\* Position of the positive representable magnitude k in increasing order.
RECURSIVE Ord(_)
Ord(k) == IF k < TwoP THEN k ELSE (TwoP \div 2) + Ord(k \div 2)

SinTable ==
  <<
      1, 2, 3, 4, 5, 6, 7, 8, 9, 10, 11, 12,
      13, 14, 15, 16, 18, 20, 22, 24, 26, 28, 28, 30,
      36, 36, 40, 44, 48, 48, 52, 52, 56, 60, 64, 64,
      64, 64, 60, 60, 48, 40, 24, 9, -7, -22, -36, -48,
      -64, -60, -44, -18, 14, 44, 60, 64, 26, -36, -64, -36,
      26, 64, 40
  >>

CosTable ==
  <<
      64, 64, 64, 64, 64, 64, 64, 64, 64, 64, 64, 64,
      64, 64, 64, 64, 60, 60, 60, 60, 60, 56, 56, 56,
      56, 52, 48, 48, 44, 40, 36, 36, 28, 20, 12, 5,
      -3, -11, -20, -26, -40, -52, -60, -64, -64, -60, -52, -40,
      -13, 18, 44, 60, 64, 48, 22, -9, -60, -52, 0, 56,
      60, 9, -48
  >>

SinhTable ==
  <<
      1, 2, 3, 4, 5, 6, 7, 8, 9, 10, 11, 12,
      13, 14, 15, 16, 18, 20, 22, 24, 26, 28, 32, 32,
      36, 44, 48, 52, 56, 64, 72, 72, 88, 104, 120, 144,
      160, 176, 208, 240, 288, 384, 512, 640, 832, 961, 961, 961,
      961, 961, 961, 961, 961, 961, 961, 961, 961, 961, 961, 961,
      961, 961, 961
  >>

CoshTable ==
  <<
      64, 64, 64, 64, 64, 64, 64, 64, 64, 64, 64, 64,
      64, 64, 64, 64, 64, 64, 64, 72, 72, 72, 72, 72,
      72, 80, 80, 80, 88, 88, 96, 96, 112, 120, 128, 144,
      176, 192, 208, 240, 320, 384, 512, 640, 832, 961, 961, 961,
      961, 961, 961, 961, 961, 961, 961, 961, 961, 961, 961, 961,
      961, 961, 961
  >>

ExpTable ==
  <<
      64, 64, 64, 72, 72, 72, 72, 72, 72, 72, 80, 80,
      80, 80, 80, 80, 88, 88, 88, 96, 96, 96, 104, 104,
      112, 120, 128, 128, 144, 160, 160, 176, 192, 224, 256, 288,
      320, 384, 416, 480, 576, 768, 961, 961, 961, 961, 961, 961,
      961, 961, 961, 961, 961, 961, 961, 961, 961, 961, 961, 961,
      961, 961, 961
  >>

ExpNegTable ==
  <<
      64, 64, 60, 60, 60, 60, 56, 56, 56, 56, 52, 52,
      52, 52, 52, 48, 48, 48, 44, 44, 44, 40, 40, 40,
      36, 36, 32, 30, 28, 26, 26, 24, 20, 18, 16, 14,
      13, 11, 10, 9, 7, 5, 4, 3, 2, 2, 2, 1,
      1, 0, 0, 0, 0, 0, 0, 0, 0, 0, 0, 0,
      0, 0, 0
  >>

LnTable ==
  <<
      -256, -224, -192, -176, -160, -144, -144, -128, -128, -120, -112, -104,
      -104, -96, -96, -88, -80, -72, -72, -64, -56, -52, -48, -44,
      -36, -30, -24, -18, -13, -9, -4, 0, 8, 14, 20, 26,
      32, 36, 40, 44, 52, 60, 64, 72, 72, 80, 88, 88,
      96, 104, 112, 112, 120, 128, 128, 128, 144, 144, 160, 160,
      160, 176, 176
  >>

AngleTable ==
  <<
      1, 2, 3, 4, 5, 6, 7, 8, 9, 10,
      11, 12, 13, 14, 15, 16, 18, 20, 22, 24,
      26, 28, 30, 32, 36, 40, 44, 48, 52, 56,
      60, 64, 72, 80, 88, 96, 104, 112, 120, 128,
      144, 160, 176, 192, 208
  >>

CotNum ==
  <<
      49151, 777159, 1539287, 648660, 1660192, 1419982, 652693, 1378385, 1949177, 1125063,
      1978532, 1179025, 2039083, 454034, 1593647, 288674, 1708795, 1824422, 1505188, 514707,
      431353, 1099486, 973221, 2217641, 1367113, 876029, 1412841, 404455, 301013, 1328201,
      1737994, 239009, 1231451, 507565, 217206, 228441, 3061, -230923, -341812, -456403,
      -295125, -253866, -1837963, -2012818, -2017515
  >>

CotDen ==
  <<
      384, 18218, 60159, 35509, 116925, 122331, 66518, 162273, 260408, 168239,
      327547, 214166, 403401, 97219, 367368, 71313, 464884, 558119, 512413, 193370,
      177625, 493475, 473876, 1166888, 803312, 591320, 1088048, 353841, 298526, 1493011,
      2218483, 347829, 2210371, 1258717, 822133, 1703621, 368950, 1969721, 1386531, 1188315,
      476851, 244493, 1044048, 549687, 33479
  >>

\* The float for the signed table entry v; a zero entry takes the sign negZero.
FromEntry(v, negZero) ==
  IF v > MaxMag THEN PosInf
  ELSE IF v < 0 - MaxMag THEN NegInf
  ELSE IF v = 0 THEN Fin(negZero, 0)
  ELSE IF v < 0 THEN Fin(TRUE, 0 - v) ELSE Fin(FALSE, v)

fsin(a) ==
  IF IsNaN(a) \/ IsInf(a) THEN NaN
  ELSE IF a.mag = 0 THEN a
  ELSE LET v == SinTable[Ord(a.mag)]
       IN  FromEntry(IF a.neg THEN 0 - v ELSE v, a.neg)

fcos(a) ==
  IF IsNaN(a) \/ IsInf(a) THEN NaN
  ELSE IF a.mag = 0 THEN f_one
  ELSE FromEntry(CosTable[Ord(a.mag)], FALSE)

fsinh(a) ==
  IF IsNaN(a) THEN NaN
  ELSE IF IsInf(a) \/ a.mag = 0 THEN a
  ELSE LET v == SinhTable[Ord(a.mag)]
       IN  FromEntry(IF a.neg THEN 0 - v ELSE v, a.neg)

fcosh(a) ==
  IF IsNaN(a) THEN NaN
  ELSE IF IsInf(a) THEN PosInf
  ELSE IF a.mag = 0 THEN f_one
  ELSE FromEntry(CoshTable[Ord(a.mag)], FALSE)

fexp(a) ==
  IF IsNaN(a) THEN NaN
  ELSE IF IsInf(a) THEN (IF a.neg THEN PosZero ELSE PosInf)
  ELSE IF a.mag = 0 THEN f_one
  ELSE IF a.neg THEN FromEntry(ExpNegTable[Ord(a.mag)], FALSE)
  ELSE FromEntry(ExpTable[Ord(a.mag)], FALSE)

fln(a) ==
  IF IsNaN(a) THEN NaN
  ELSE IF IsFin(a) /\ a.mag = 0 THEN NegInf
  ELSE IF a.neg THEN NaN
  ELSE IF IsInf(a) THEN PosInf
  ELSE FromEntry(LnTable[Ord(a.mag)], FALSE)

Exp2Table ==
  <<
      64, 64, 64, 64, 64, 72, 72, 72, 72, 72, 72, 72,
      72, 72, 72, 80, 80, 80, 80, 80, 88, 88, 88, 88,
      96, 96, 104, 104, 112, 120, 120, 128, 144, 160, 160, 176,
      192, 208, 240, 256, 320, 352, 416, 512, 640, 704, 832, 961,
      961, 961, 961, 961, 961, 961, 961, 961, 961, 961, 961, 961,
      961, 961, 961
  >>

Exp2NegTable ==
  <<
      64, 64, 60, 60, 60, 60, 60, 60, 60, 56, 56, 56,
      56, 56, 56, 52, 52, 52, 52, 48, 48, 48, 48, 44,
      44, 40, 40, 40, 36, 36, 32, 32, 30, 26, 24, 22,
      20, 20, 18, 16, 13, 11, 10, 8, 7, 6, 5, 4,
      3, 2, 1, 1, 1, 0, 0, 0, 0, 0, 0, 0,
      0, 0, 0
  >>

\* $libm::exp2.
fexp2(a) ==
  IF IsNaN(a) THEN NaN
  ELSE IF IsInf(a) THEN (IF a.neg THEN PosZero ELSE PosInf)
  ELSE IF a.mag = 0 THEN f_one
  ELSE IF a.neg THEN FromEntry(Exp2NegTable[Ord(a.mag)], FALSE)
  ELSE FromEntry(Exp2Table[Ord(a.mag)], FALSE)

\* n as f32 / n as f64 for an i32 n: exact for every exponent of the model.
from_i32(n) == IF n < 0 THEN Fin(TRUE, (0 - n) * Quantum) ELSE Fin(FALSE, n * Quantum)

\* The exponents powi is called with are -MaxPower .. MaxPower.
MaxPower == 3

Exponents == (0 - MaxPower) .. MaxPower

\* Row y + 5 lists the correctly rounded x^y, y = -4 .. 4, for every positive
\* finite x in increasing order.
PowTable ==
  <<
    <<
       961, 961, 961, 961, 961, 961, 961, 961, 961, 961, 961, 961,
       961, 961, 961, 961, 961, 961, 961, 961, 961, 961, 961, 961,
       640, 416, 288, 208, 144, 112, 80, 64, 40, 26, 18, 13,
       9, 7, 5, 4, 2, 2, 1, 1, 1, 0, 0, 0,
       0, 0, 0, 0, 0, 0, 0, 0, 0, 0, 0, 0,
       0, 0, 0
    >>,
    <<
       961, 961, 961, 961, 961, 961, 961, 961, 961, 961, 961, 961,
       961, 961, 961, 961, 961, 961, 961, 961, 960, 768, 640, 512,
       352, 256, 192, 144, 120, 96, 80, 64, 44, 32, 24, 18,
       15, 12, 10, 8, 6, 4, 3, 2, 2, 1, 1, 1,
       1, 1, 0, 0, 0, 0, 0, 0, 0, 0, 0, 0,
       0, 0, 0
    >>,
    <<
       961, 961, 961, 961, 961, 961, 961, 961, 961, 961, 961, 961,
       961, 961, 961, 961, 832, 640, 512, 448, 384, 320, 288, 256,
       208, 160, 128, 112, 96, 80, 72, 64, 52, 40, 32, 28,
       24, 20, 18, 16, 13, 10, 8, 7, 6, 5, 5, 4,
       3, 3, 2, 2, 2, 1, 1, 1, 1, 1, 1, 0,
       0, 0, 0
    >>,
    <<
       961, 961, 961, 961, 832, 704, 576, 512, 448, 416, 384, 352,
       320, 288, 288, 256, 224, 208, 192, 176, 160, 144, 144, 128,
       112, 104, 96, 88, 80, 72, 72, 64, 56, 52, 48, 44,
       40, 36, 36, 32, 28, 26, 24, 22, 20, 18, 18, 16,
       14, 13, 12, 11, 10, 9, 9, 8, 7, 6, 6, 5,
       5, 5, 4
    >>,
    <<
       64, 64, 64, 64, 64, 64, 64, 64, 64, 64, 64, 64,
       64, 64, 64, 64, 64, 64, 64, 64, 64, 64, 64, 64,
       64, 64, 64, 64, 64, 64, 64, 64, 64, 64, 64, 64,
       64, 64, 64, 64, 64, 64, 64, 64, 64, 64, 64, 64,
       64, 64, 64, 64, 64, 64, 64, 64, 64, 64, 64, 64,
       64, 64, 64
    >>,
    <<
       1, 2, 3, 4, 5, 6, 7, 8, 9, 10, 11, 12,
       13, 14, 15, 16, 18, 20, 22, 24, 26, 28, 30, 32,
       36, 40, 44, 48, 52, 56, 60, 64, 72, 80, 88, 96,
       104, 112, 120, 128, 144, 160, 176, 192, 208, 224, 240, 256,
       288, 320, 352, 384, 416, 448, 480, 512, 576, 640, 704, 768,
       832, 896, 960
    >>,
    <<
       0, 0, 0, 0, 0, 1, 1, 1, 1, 2, 2, 2,
       3, 3, 4, 4, 5, 6, 8, 9, 11, 12, 14, 16,
       20, 24, 30, 36, 44, 48, 56, 64, 80, 96, 120, 144,
       176, 192, 224, 256, 320, 384, 480, 576, 704, 768, 896, 961,
       961, 961, 961, 961, 961, 961, 961, 961, 961, 961, 961, 961,
       961, 961, 961
    >>,
    <<
       0, 0, 0, 0, 0, 0, 0, 0, 0, 0, 0, 0,
       1, 1, 1, 1, 1, 2, 3, 3, 4, 5, 7, 8,
       11, 16, 20, 28, 36, 44, 52, 64, 88, 128, 160, 224,
       288, 352, 416, 512, 704, 961, 961, 961, 961, 961, 961, 961,
       961, 961, 961, 961, 961, 961, 961, 961, 961, 961, 961, 961,
       961, 961, 961
    >>,
    <<
       0, 0, 0, 0, 0, 0, 0, 0, 0, 0, 0, 0,
       0, 0, 0, 0, 0, 1, 1, 1, 2, 2, 3, 4,
       6, 10, 14, 20, 28, 36, 48, 64, 104, 160, 224, 320,
       448, 576, 768, 961, 961, 961, 961, 961, 961, 961, 961, 961,
       961, 961, 961, 961, 961, 961, 961, 961, 961, 961, 961, 961,
       961, 961, 961
    >>
  >>

\* $libm::powf(x, y) (pow of C) for the base x = 2 and any y, and for any
\* base x and an integer-valued y.
fpowf(x, y) ==
  LET n == Key(y) \div Quantum
      neg == x.neg /\ n % 2 = 1
  IN  IF x = Fin(FALSE, 2 * Quantum) THEN fexp2(y)
      ELSE IF n = 0 THEN f_one
      ELSE IF IsNaN(x) THEN NaN
      ELSE IF IsInf(x) THEN (IF n > 0 THEN Inf(neg) ELSE Fin(neg, 0))
      ELSE IF x.mag = 0 THEN (IF n > 0 THEN Fin(neg, 0) ELSE Inf(neg))
      ELSE LET v == PowTable[n + 5][Ord(x.mag)]
           IN  IF v > MaxMag THEN Inf(neg) ELSE Fin(neg, v)

\* The loop of __powisf2 / __powidf2, which f32::powi / f64::powi call:
\* square and multiply over the bits b of |n|.
RECURSIVE powi_loop(_, _, _)
powi_loop(a, b, r) ==
  LET r2 == IF b % 2 = 1 THEN fmul(r, a) ELSE r
  IN  IF b \div 2 = 0 THEN r2 ELSE powi_loop(fmul(a, a), b \div 2, r2)

\* f32::powi / f64::powi.
fpowi(x, n) ==
  LET r == powi_loop(x, IF n < 0 THEN 0 - n ELSE n, f_one)
  IN  IF n < 0 THEN fdiv(f_one, r) ELSE r

\* RealField::pi() and its fractions, rounded to the format.
f_pi == Fin(FALSE, AngleTable[Len(AngleTable)])

f_frac_pi_2 == Fin(FALSE, f_pi.mag \div 2)

f_frac_pi_4 == Fin(FALSE, f_pi.mag \div 4)

\* 3*pi/4 = 2.356..., whose nearest value of the format is 2.25.
f_3_frac_pi_4 == Fin(FALSE, 144)

\* The rounded angle, in quanta, of the point (x, y) with y > 0 finite:
\* the angle is at least the midpoint below AngleTable[j] exactly when
\* x / y <= cot(midpoint) = CotNum[j] / CotDen[j].
AngleMag(y, x) ==
  LET n == Cardinality({j \in 1..Len(AngleTable) : x * CotDen[j] <= CotNum[j] * y})
  IN  IF n = 0 THEN 0 ELSE AngleTable[n]

\* atan2(y, x) with the special cases of IEEE-754 / C99.
fatan2(y, x) ==
  IF IsNaN(y) \/ IsNaN(x) THEN NaN
  ELSE IF IsFin(y) /\ y.mag = 0 THEN (IF x.neg THEN Fin(y.neg, f_pi.mag) ELSE Fin(y.neg, 0))
  ELSE IF IsFin(x) /\ x.mag = 0 THEN Fin(y.neg, f_frac_pi_2.mag)
  ELSE IF IsInf(y)
    THEN (IF IsInf(x)
            THEN (IF x.neg THEN Fin(y.neg, f_3_frac_pi_4.mag) ELSE Fin(y.neg, f_frac_pi_4.mag))
            ELSE Fin(y.neg, f_frac_pi_2.mag))
  ELSE IF IsInf(x) THEN (IF x.neg THEN Fin(y.neg, f_pi.mag) ELSE Fin(y.neg, 0))
  ELSE Fin(y.neg, AngleMag(y.mag, Key(x)))

(***************************************************************************)
(* num_complex::Complex<N>: a pair of reals with component-wise equality.  *)
(***************************************************************************)
Complex(re, im) == [re |-> re, im |-> im]

c_zero == Complex(f_zero, f_zero)

c_one == Complex(f_one, f_zero)

c_i == Complex(f_zero, f_one)

c_eq(a, b) == feq(a.re, b.re) /\ feq(a.im, b.im)

c_is_zero(a) == f_is_zero(a.re) /\ f_is_zero(a.im)

cneg(a) == Complex(fneg(a.re), fneg(a.im))

cadd(a, b) == Complex(fadd(a.re, b.re), fadd(a.im, b.im))

csub(a, b) == Complex(fsub(a.re, b.re), fsub(a.im, b.im))

cmul(a, b) ==
  Complex(fsub(fmul(a.re, b.re), fmul(a.im, b.im)),
          fadd(fmul(a.re, b.im), fmul(a.im, b.re)))

\* Complex / Complex divides both parts of a * conj(b) by b.norm_sqr().
cdiv(a, b) ==
  LET norm_sqr == fadd(fmul(b.re, b.re), fmul(b.im, b.im))
      re == fadd(fmul(a.re, b.re), fmul(a.im, b.im))
      im == fsub(fmul(a.im, b.re), fmul(a.re, b.im))
  IN  Complex(fdiv(re, norm_sqr), fdiv(im, norm_sqr))

(***************************************************************************)
(* Results.  Option<T> is None or Some(v); a tuple result is a sequence;   *)
(* a method whose body branches reports the branch it took.                *)
(***************************************************************************)
None == <<>>

Some(v) == <<v>>

Ret(v, p) == [ret |-> v, path |-> p]

(***************************************************************************)
(* impl ComplexField for f32 / f64  (impl_complex!).                       *)
(***************************************************************************)
f_imaginary(x) == f_zero

f_modulus(x) == fabs(x)

f_modulus_squared(x) == fmul(x, x)

\* Faulty variant of f_argument: the comparison is strict.
f_argument_strict(x) == IF fge(x, f_zero) /\ ~feq(x, f_zero) THEN f_zero ELSE f_pi

f_argument(x) == IF fge(x, f_zero) THEN f_zero ELSE f_pi

\* Faulty variant of f_to_exp: the comparison is strict.
f_to_exp_strict(x) ==
  IF fge(x, f_zero) /\ ~feq(x, f_zero) THEN Ret(<<x, f_one>>, "nonneg")
  ELSE Ret(<<fneg(x), fneg(f_one)>>, "neg")

f_to_exp(x) ==
  IF fge(x, f_zero) THEN Ret(<<x, f_one>>, "nonneg")
  ELSE Ret(<<fneg(x), fneg(f_one)>>, "neg")

\* Faulty variant of f_unscale: a division that aborts on a zero divisor, as
\* the division of integers does; "abort" marks a call that returned nothing.
f_unscale_trapping(x, factor) ==
  IF f_is_zero(factor) THEN [cls |-> "abort", neg |-> FALSE, mag |-> 0] ELSE fdiv(x, factor)

\* Faulty variant of f_scale: the sign of the receiver is dropped.
f_scale_magnitude(x, factor) == fmul(fabs(x), factor)

f_scale(x, factor) == fmul(x, factor)

f_unscale(x, factor) == fdiv(x, factor)

f_is_finite(x) == IsFin(x)

\* Signed::signum of a float: NaN for NaN, else -1 or 1 by the sign bit.
f_signum(x) ==
  IF IsNaN(x) THEN NaN ELSE IF x.neg THEN fneg(f_one) ELSE f_one

\* Faulty variant of f_try_sqrt: the domain check is missing.
f_try_sqrt_unchecked(x) == Some(fsqrt(x))

f_try_sqrt(x) == IF fge(x, f_zero) THEN Some(fsqrt(x)) ELSE None

(***************************************************************************)
(* impl ComplexField for num_complex::Complex<N>.                          *)
(***************************************************************************)
c_from_real(re) == Complex(re, f_zero)

c_imaginary(z) == z.im

\* Faulty variant of c_argument: the arguments of atan2 are exchanged.
c_argument_swapped(z) == fatan2(z.re, z.im)

c_argument(z) == fatan2(z.im, z.re)

\* Faulty variant of c_modulus: the square root of the squared modulus,
\* whose squares underflow and overflow.
c_modulus_naive(z) == fsqrt(fadd(fmul(z.re, z.re), fmul(z.im, z.im)))

c_modulus(z) == fhypot(z.re, z.im)

c_modulus_squared(z) == fadd(fmul(z.re, z.re), fmul(z.im, z.im))

\* Faulty variant of c_unscale: multiplies by the factor, as scale does.
c_unscale_scaled(z, factor) == Complex(fmul(z.re, factor), fmul(z.im, factor))

c_unscale(z, factor) == Complex(fdiv(z.re, factor), fdiv(z.im, factor))

c_to_polar(z) == <<c_modulus(z), c_argument(z)>>

\* Faulty variant of complex_from_polar: sine and cosine are exchanged.
complex_from_polar_swapped(r, theta) == Complex(fmul(r, fsin(theta)), fmul(r, fcos(theta)))

\* Faulty variant of c_is_finite: only the real part is looked at.
c_is_finite_re(z) == f_is_finite(z.re)

c_is_finite(z) == f_is_finite(z.re) /\ f_is_finite(z.im)

complex_from_polar(r, theta) == Complex(fmul(r, fcos(theta)), fmul(r, fsin(theta)))

\* Faulty variant of c_exp: the exponential of the modulus, not of the real part.
c_exp_of_modulus(z) == complex_from_polar(fexp(c_modulus(z)), z.im)

c_exp(z) == complex_from_polar(fexp(z.re), z.im)

\* Faulty variant of c_ln: the logarithm of the squared modulus.
c_ln_of_squared(z) ==
  LET p == c_to_polar(z)
  IN  Complex(fln(c_modulus_squared(z)), p[2])

c_ln(z) ==
  LET p == c_to_polar(z)
  IN  Complex(fln(p[1]), p[2])

c_sqrt(z) ==
  LET two == fadd(f_one, f_one)
      p == c_to_polar(z)
  IN  complex_from_polar(fsqrt(p[1]), fdiv(p[2], two))

\* Faulty variant of c_try_sqrt: absent on the negative real axis, as for a real.
c_try_sqrt_partial(z) ==
  IF f_is_zero(z.im) /\ ~fge(z.re, f_zero) THEN None ELSE Some(c_sqrt(z))

c_try_sqrt(z) == Some(c_sqrt(z))

c_powf(z, exp) ==
  LET p == c_to_polar(z)
  IN  complex_from_polar(fpowf(p[1], exp), fmul(p[2], exp))

\* ComplexField for Complex<N>: powc.
c_powc(z, exp) ==
  LET p == c_to_polar(z)
  IN  complex_from_polar(
        fmul(fpowf(p[1], exp.re), fexp(fmul(fneg(exp.im), p[2]))),
        fadd(fmul(exp.re, p[2]), fmul(exp.im, fln(p[1]))))

\* Faulty variant of c_exp2: base and exponent are exchanged (z raised to 2).
c_exp2_of_base(z) == c_powc(z, Complex(fadd(f_one, f_one), f_zero))

\* ComplexField for Complex<N>: exp2.
c_exp2(z) == c_powc(Complex(fadd(f_one, f_one), f_zero), z)

\* Faulty variant of c_powi: the exponent is off by one.
c_powi_next(z, n) == c_powf(z, from_i32(n + 1))

c_powi(z, n) == c_powf(z, from_i32(n))

c_sin(z) == Complex(fmul(fsin(z.re), fcosh(z.im)), fmul(fcos(z.re), fsinh(z.im)))

c_cos(z) == Complex(fmul(fcos(z.re), fcosh(z.im)), fmul(fneg(fsin(z.re)), fsinh(z.im)))

c_sinh(z) == Complex(fmul(fsinh(z.re), fcos(z.im)), fmul(fcosh(z.re), fsin(z.im)))

c_cosh(z) == Complex(fmul(fcosh(z.re), fcos(z.im)), fmul(fsinh(z.re), fsin(z.im)))

\* Faulty variant of c_atan: the poles go through the logarithm formula.
c_atan_no_poles(z) ==
  LET i == c_i
      one == c_one
      two == cadd(one, one)
  IN  Ret(cdiv(csub(c_ln(cadd(one, cmul(i, z))), c_ln(csub(one, cmul(i, z)))),
               cmul(two, i)),
          "ln")

c_atan(z) ==
  LET i == c_i
      one == c_one
      two == cadd(one, one)
  IN  IF c_eq(z, i) THEN Ret(Complex(f_zero, fdiv(f_one, f_zero)), "pole")
      ELSE IF c_eq(z, cneg(i)) THEN Ret(Complex(f_zero, fdiv(fneg(f_one), f_zero)), "negpole")
      ELSE Ret(cdiv(csub(c_ln(cadd(one, cmul(i, z))), c_ln(csub(one, cmul(i, z)))),
                    cmul(two, i)),
               "ln")

\* Faulty variant of c_atanh: the poles go through the logarithm formula.
c_atanh_no_poles(z) ==
  LET one == c_one
      two == cadd(one, one)
  IN  Ret(cdiv(csub(c_ln(cadd(one, z)), c_ln(csub(one, z))), two), "ln")

c_atanh(z) ==
  LET one == c_one
      two == cadd(one, one)
  IN  IF c_eq(z, one) THEN Ret(Complex(fdiv(f_one, f_zero), f_zero), "pole")
      ELSE IF c_eq(z, cneg(one)) THEN Ret(Complex(fdiv(fneg(f_one), f_zero), f_zero), "negpole")
      ELSE Ret(cdiv(csub(c_ln(cadd(one, z)), c_ln(csub(one, z))), two), "ln")

(***************************************************************************)
(* The ComplexField trait: dispatch on the representation r of the         *)
(* receiver, and the default methods of complex_trait_methods!.            *)
(***************************************************************************)
Reps == {"Real", "Complex"}

zero(r) == IF r = "Real" THEN f_zero ELSE c_zero

one(r) == IF r = "Real" THEN f_one ELSE c_one

is_zero(r, v) == IF r = "Real" THEN f_is_zero(v) ELSE c_is_zero(v)

div(r, a, b) == IF r = "Real" THEN fdiv(a, b) ELSE cdiv(a, b)

imaginary(r, v) == IF r = "Real" THEN f_imaginary(v) ELSE c_imaginary(v)

modulus(r, v) == IF r = "Real" THEN f_modulus(v) ELSE c_modulus(v)

argument(r, v) == IF r = "Real" THEN f_argument(v) ELSE c_argument(v)

unscale(r, v, factor) == IF r = "Real" THEN f_unscale(v, factor) ELSE c_unscale(v, factor)

sin(r, v) == IF r = "Real" THEN fsin(v) ELSE c_sin(v)

cos(r, v) == IF r = "Real" THEN fcos(v) ELSE c_cos(v)

sinh(r, v) == IF r = "Real" THEN fsinh(v) ELSE c_sinh(v)

cosh(r, v) == IF r = "Real" THEN fcosh(v) ELSE c_cosh(v)

exp(r, v) == IF r = "Real" THEN fexp(v) ELSE c_exp(v)

ln(r, v) == IF r = "Real" THEN fln(v) ELSE c_ln(v)

sqrt(r, v) == IF r = "Real" THEN fsqrt(v) ELSE c_sqrt(v)

try_sqrt(r, v) == IF r = "Real" THEN f_try_sqrt(v) ELSE c_try_sqrt(v)

\* powi of the representation r in the build with (std) or without the
\* std feature.
powi(r, v, n, std) ==
  IF r = "Complex" THEN Ret(c_powi(v, n), "powf")
  ELSE IF std THEN Ret(fpowi(v, n), "std")
  ELSE Ret(fpowf(v, from_i32(n)), "libm")

is_finite(r, v) == IF r = "Real" THEN f_is_finite(v) ELSE c_is_finite(v)

to_polar(r, v) == <<modulus(r, v), argument(r, v)>>

\* Faulty variant of default_to_exp: the zero-modulus check is missing.
default_to_exp_unguarded(r, v) ==
  LET m == modulus(r, v)
  IN  Ret(<<m, unscale(r, v, m)>>, "unscale")

default_to_exp(r, v) ==
  LET m == modulus(r, v)
  IN  IF ~f_is_zero(m) THEN Ret(<<m, unscale(r, v, m)>>, "unscale")
      ELSE Ret(<<f_zero, one(r)>>, "one")

to_exp(r, v) == IF r = "Real" THEN f_to_exp(v) ELSE default_to_exp(r, v)

default_signum(r, v) ==
  LET e == to_exp(r, v)
  IN  Ret(e.ret[2], e.path)

signum(r, v) == IF r = "Real" THEN Ret(f_signum(v), "Signed") ELSE default_signum(r, v)

\* Faulty variant of sinc: the zero check is missing.
sinc_unguarded(r, v) == Ret(div(r, sin(r, v), v), "div")

sinc(r, v) ==
  IF is_zero(r, v) THEN Ret(one(r), "one") ELSE Ret(div(r, sin(r, v), v), "div")

sinhc(r, v) ==
  IF is_zero(r, v) THEN Ret(one(r), "one") ELSE Ret(div(r, sinh(r, v), v), "div")

cosc(r, v) ==
  IF is_zero(r, v) THEN Ret(one(r), "one") ELSE Ret(div(r, cos(r, v), v), "div")

coshc(r, v) ==
  IF is_zero(r, v) THEN Ret(one(r), "one") ELSE Ret(div(r, cosh(r, v), v), "div")

(***************************************************************************)
(* impl<T: ComplexField> SimdComplexField for T: the single-lane facade.   *)
(***************************************************************************)
simd_zero(r) == zero(r)

is_simd_zero(r, v) == is_zero(r, v)

\* Faulty variant of simd_one: forwards to zero().
simd_one_as_zero(r) == zero(r)

simd_one(r) == one(r)

simd_unscale(r, v, factor) == unscale(r, v, factor)

(***************************************************************************)
(* The state machine: a scalar of either representation is constructed,    *)
(* one method of the facade is called on it, and the call returns.         *)
(***************************************************************************)
\* The odd factor of a magnitude: its significand without trailing zeros.
RECURSIVE OddPart(_)
OddPart(k) == IF k > 0 /\ k % 2 = 0 THEN OddPart(k \div 2) ELSE k

\* Complex receivers have components of at most MaxInputBits significant
\* bits (every exponent of the format, both zeros, the infinities and NaN);
\* real receivers range over the whole format.
MaxInputBits == 2

InputParts == {a \in Floats : IsFin(a) => OddPart(a.mag) < Pow2(MaxInputBits)}

Receivers(r) ==
  IF r = "Real" THEN Floats ELSE {Complex(a, b) : a \in InputParts, b \in InputParts}

\* The factors a scaling method is called with.
Factors ==
  {a \in InputParts : IsFin(a) => a.mag \in {0, Quantum \div 2, Quantum, 3 * Quantum}}

VARIABLES
  rep,    \* the representation of the receiver: "Real" or "Complex"
  self,   \* the receiver of the call
  op,     \* the method called, "init" before the call
  arg,    \* the second argument of the call, None when it has none
  out,    \* the value the call returned
  path,   \* the branch of the method body that ran
  thr     \* the calls of concurrent threads, empty when there are none

vars == <<rep, self, op, arg, out, path, thr>>

Init ==
  /\ rep \in Reps
  /\ self \in Receivers(rep)
  /\ op = "init"
  /\ arg = None
  /\ out = <<>>
  /\ path = ""
  /\ thr = <<>>

\* A call of a method without branches.
Call(name, value) ==
  /\ op = "init"
  /\ op' = name
  /\ out' = value
  /\ path' = "straight"
  /\ UNCHANGED <<rep, self, arg, thr>>

\* A call of a method that reports its branch.
CallRet(name, r) ==
  /\ op = "init"
  /\ op' = name
  /\ out' = r.ret
  /\ path' = r.path
  /\ UNCHANGED <<rep, self, arg, thr>>

\* A call of a method with a second argument a.
Call2(name, a, value) ==
  /\ op = "init"
  /\ op' = name
  /\ arg' = Some(a)
  /\ out' = value
  /\ path' = "straight"
  /\ UNCHANGED <<rep, self, thr>>

TrySqrt == Call("try_sqrt", try_sqrt(rep, self))

Imaginary == Call("imaginary", imaginary(rep, self))

Argument == Call("argument", argument(rep, self))

Modulus == Call("modulus", modulus(rep, self))

ToPolar == Call("to_polar", to_polar(rep, self))

ToExp == CallRet("to_exp", to_exp(rep, self))

Signum == CallRet("signum", signum(rep, self))

Sinc == CallRet("sinc", sinc(rep, self))

Sinhc == CallRet("sinhc", sinhc(rep, self))

Cosc == CallRet("cosc", cosc(rep, self))

Coshc == CallRet("coshc", coshc(rep, self))

Atan == rep = "Complex" /\ CallRet("atan", c_atan(self))

Atanh == rep = "Complex" /\ CallRet("atanh", c_atanh(self))

IsFinite == Call("is_finite", is_finite(rep, self))

Exp == Call("exp", exp(rep, self))

Powi ==
  \E n \in Exponents, std \in BOOLEAN :
    LET r == powi(rep, self, n, std)
    IN  /\ op = "init"
        /\ op' = "powi"
        /\ arg' = Some(n)
        /\ out' = r.ret
        /\ path' = r.path
        /\ UNCHANGED <<rep, self, thr>>

Ln == Call("ln", ln(rep, self))

Sqrt == Call("sqrt", sqrt(rep, self))

Sin == Call("sin", sin(rep, self))

\* $libm::sin_cos: the sine and the cosine of one operand.
f_sin_cos(x) == <<fsin(x), fcos(x)>>

\* ComplexField for Complex<N>: sin_cos, from the real sin_cos of the real
\* part and the sinh_cosh of the imaginary part.
c_sin_cos(z) ==
  LET rsin == f_sin_cos(z.re)[1]
      rcos == f_sin_cos(z.re)[2]
      isinh == fsinh(z.im)
      icosh == fcosh(z.im)
  IN  <<Complex(fmul(rsin, icosh), fmul(rcos, isinh)),
        Complex(fmul(rcos, icosh), fmul(fneg(rsin), isinh))>>

\* Faulty variant of c_sinh_cosh: the hyperbolic cosine takes the sign of the cosine.
c_sinh_cosh_conjugate(z) ==
  LET rsinh == fsinh(z.re)
      rcosh == fcosh(z.re)
      isin == f_sin_cos(z.im)[1]
      icos == f_sin_cos(z.im)[2]
  IN  <<Complex(fmul(rsinh, icos), fmul(rcosh, isin)),
        Complex(fmul(rcosh, icos), fmul(fneg(rsinh), isin))>>

\* ComplexField for Complex<N>: sinh_cosh.
c_sinh_cosh(z) ==
  LET rsinh == fsinh(z.re)
      rcosh == fcosh(z.re)
      isin == f_sin_cos(z.im)[1]
      icos == f_sin_cos(z.im)[2]
  IN  <<Complex(fmul(rsinh, icos), fmul(rcosh, isin)),
        Complex(fmul(rcosh, icos), fmul(rsinh, isin))>>

SinCos == Call("sin_cos", IF rep = "Real" THEN f_sin_cos(self) ELSE c_sin_cos(self))

\* The real types keep the provided sinh_cosh, (sinh, cosh).
SinhCosh ==
  Call("sinh_cosh",
       IF rep = "Real" THEN <<sinh(rep, self), cosh(rep, self)>> ELSE c_sinh_cosh(self))

Exp2 == Call("exp2", IF rep = "Real" THEN fexp2(self) ELSE c_exp2(self))

SimdZero == Call("simd_zero", simd_zero(rep))

IsSimdZero == Call("is_simd_zero", is_simd_zero(rep, self))

SimdOne == Call("simd_one", simd_one(rep))

SimdUnscale ==
  \E factor \in Factors : Call2("simd_unscale", factor, simd_unscale(rep, self, factor))

Next ==
  \/ TrySqrt
  \/ Imaginary
  \/ Argument
  \/ Modulus
  \/ ToPolar
  \/ ToExp
  \/ Signum
  \/ Sinc
  \/ Sinhc
  \/ Cosc
  \/ Coshc
  \/ Atan
  \/ Atanh
  \/ IsFinite
  \/ Exp
  \/ Powi
  \/ Ln
  \/ Sqrt
  \/ Sin
  \/ SinCos
  \/ SinhCosh
  \/ Exp2
  \/ SimdZero
  \/ IsSimdZero
  \/ SimdOne
  \/ SimdUnscale

Spec == Init /\ [][Next]_vars

(***************************************************************************)
(* Concurrent calls: each thread of Threads calls to_exp on a value of its *)
(* own.  A method takes self by value (ComplexField: Copy), so the callee  *)
(* works on a copy, this, in its own frame, and keeps its local m there.   *)
(* The steps of the calls interleave in any order.                         *)
(***************************************************************************)
NumThreads == 2

Threads == 1 .. NumThreads

ThreadInputs ==
  {[rep |-> "Real", self |-> x] : x \in {Fin(TRUE, 2 * Quantum), NegZero, NaN}}
    \cup {[rep |-> "Complex", self |-> z] :
            z \in {c_zero, Complex(Fin(FALSE, 3 * Quantum), Fin(TRUE, 8 * Quantum)),
                   Complex(PosInf, f_one)}}

\* Faulty variant of Slot: the local m is one location shared by every call.
Slot_shared(t) == 1

\* The frame that holds the locals of the call of thread t.
Slot(t) == t

InitThreads ==
  /\ thr \in [Threads -> {[rep |-> i.rep, self |-> i.self, this |-> None, m |-> f_zero,
                           pc |-> "idle", out |-> None] : i \in ThreadInputs}]
  /\ rep = "Real"
  /\ self = f_zero
  /\ op = "threads"
  /\ arg = None
  /\ out = <<>>
  /\ path = ""

\* Thread t calls to_exp: the receiver is copied into the callee's frame.
Invoke(t) ==
  /\ thr[t].pc = "idle"
  /\ thr' = [thr EXCEPT ![t].this = Some(thr[t].self), ![t].pc = "entry"]
  /\ UNCHANGED <<rep, self, op, arg, out, path>>

\* The first statement of the body: the real to_exp returns at once, the
\* default to_exp computes the local m.
StepEntry(t) ==
  /\ thr[t].pc = "entry"
  /\ thr' =
       IF thr[t].rep = "Real"
         THEN [thr EXCEPT ![t].out = Some(f_to_exp(thr[t].this[1]).ret),
                          ![t].pc = "returned"]
         ELSE [[thr EXCEPT ![Slot(t)].m = modulus(thr[t].rep, thr[t].this[1])]
                 EXCEPT ![t].pc = "branch"]
  /\ UNCHANGED <<rep, self, op, arg, out, path>>

\* The branch of the default to_exp on the local m, and the return.
StepBranch(t) ==
  /\ thr[t].pc = "branch"
  /\ LET m == thr[Slot(t)].m
          v == thr[t].this[1]
          r == IF ~f_is_zero(m) THEN <<m, unscale(thr[t].rep, v, m)>>
               ELSE <<f_zero, one(thr[t].rep)>>
     IN  thr' = [thr EXCEPT ![t].out = Some(r), ![t].pc = "returned"]
  /\ UNCHANGED <<rep, self, op, arg, out, path>>

NextThreads == \E t \in Threads : Invoke(t) \/ StepEntry(t) \/ StepBranch(t)

SpecThreads == InitThreads /\ [][NextThreads]_vars
(***************************************************************************)
(* Claims.                                                                 *)
(***************************************************************************)
\* f32::EPSILON / f64::EPSILON: the distance from 1.0 to the next value.
Epsilon == Fin(FALSE, Quantum \div Pow2(Precision - 1))

\* |a - b| <= Epsilon, false when the difference is NaN.
Approx(a, b) == fge(Epsilon, fabs(fsub(a, b)))

Real(k) == IF k < 0 THEN Fin(TRUE, (0 - k) * Quantum) ELSE Fin(FALSE, k * Quantum)

IsCall(r, name) == rep = r /\ op = name

\* C1: for a real x, try_sqrt(x) is Some(sqrt(x)) exactly when x >= 0 and
\* None otherwise (every x < 0, and NaN); it is never Some(NaN) for a
\* negative input; try_sqrt(4.0) = Some(2.0) and try_sqrt(-1.0) = None.
C1_RealTrySqrt ==
  IsCall("Real", "try_sqrt") =>
    /\ out /= None <=> (~IsNaN(self) /\ Key(self) >= 0)
    /\ out /= None => out = Some(fsqrt(self)) /\ ~IsNaN(out[1])
    /\ (~IsNaN(self) /\ Key(self) < 0) => out = None
    /\ self = Real(4) => out = Some(Real(2))
    /\ self = Real(-1) => out = None

C1_Witness == IsCall("Real", "try_sqrt") /\ self = Real(-1) /\ out = None

\* C2 as stated: for a complex z, try_sqrt(z) is never None, it is
\* Some(sqrt(z)), and try_sqrt(Complex(-1, 0)) = Some(Complex(0, 1)).
C2_Original ==
  IsCall("Complex", "try_sqrt") =>
    /\ out /= None
    /\ out = Some(c_sqrt(self))
    /\ self = Complex(Real(-1), PosZero) => out = Some(Complex(PosZero, Real(1)))

\* C2 as amended: for a complex z, try_sqrt(z) is never None, it is
\* Some(sqrt(z)), and try_sqrt(Complex(-1, 0)) = Some(w) with w within
\* Epsilon of Complex(0, 1) in each component.
C2_ComplexTrySqrt ==
  IsCall("Complex", "try_sqrt") =>
    /\ out /= None
    /\ Len(out) = 1
    /\ out = Some(complex_from_polar(fsqrt(fhypot(self.re, self.im)),
                                     fdiv(fatan2(self.im, self.re), Real(2))))
    /\ self = Complex(Real(-1), PosZero) =>
         Approx(out[1].re, PosZero) /\ Approx(out[1].im, Real(1))

C2_Witness ==
  /\ IsCall("Complex", "try_sqrt")
  /\ self = Complex(Real(-1), PosZero)
  /\ out /= None
  /\ ~f_is_zero(out[1].re)
  /\ out[1].im = Real(1)

\* C3 as stated: for either representation signum(z) is the second
\* component of to_exp(z), and it is the multiplicative identity when the
\* modulus of z is zero.
C3_SignumIsToExpUnit ==
  op = "signum" =>
    /\ out = to_exp(rep, self).ret[2]
    /\ f_is_zero(modulus(rep, self)) => out = one(rep)

\* C4: the default to_exp (the one Complex<N> uses) returns (0, one) when
\* modulus(z) is zero, taking the branch without the division, and
\* (modulus(z), z unscaled by modulus(z)) when modulus(z) is not zero.
C4_DefaultToExp ==
  IsCall("Complex", "to_exp") =>
    LET m == fhypot(self.re, self.im)
    IN  /\ (IsFin(m) /\ m.mag = 0) =>
             out = <<PosZero, Complex(Real(1), PosZero)>> /\ path = "one"
        /\ ~(IsFin(m) /\ m.mag = 0) =>
             /\ out = <<m, Complex(fdiv(self.re, m), fdiv(self.im, m))>>
             /\ path = "unscale"

C4_Witness ==
  /\ IsCall("Complex", "to_exp")
  /\ self = Complex(NegZero, PosZero)
  /\ out = <<PosZero, c_one>>
  /\ path = "one"

\* C5: for a real x, to_exp(x) is (x, 1) if x >= 0 and (-x, -1) otherwise;
\* to_exp(0) = (0, 1).
C5_RealToExp ==
  IsCall("Real", "to_exp") =>
    /\ (~IsNaN(self) /\ Key(self) >= 0) => out = <<self, Real(1)>>
    /\ ~(~IsNaN(self) /\ Key(self) >= 0) => out = <<fneg(self), Real(-1)>>
    /\ self = PosZero => out = <<PosZero, Real(1)>>

C5_Witness == IsCall("Real", "to_exp") /\ self = PosZero /\ out = <<PosZero, Real(1)>>

\* C6: for a real x, imaginary(x) is 0, and argument(x) is 0 when x >= 0
\* and pi otherwise, so argument(x) is one of 0 and pi.
C6_RealImaginaryArgument ==
  /\ IsCall("Real", "imaginary") => out = PosZero
  /\ IsCall("Real", "argument") =>
       /\ out \in {PosZero, f_pi}
       /\ out = PosZero <=> (~IsNaN(self) /\ Key(self) >= 0)

C6_Witness == IsCall("Real", "argument") /\ self = Real(-1) /\ out = f_pi

\* Whether the receiver is zero: every component is +0 or -0.
SelfIsZero ==
  IF rep = "Real" THEN IsFin(self) /\ self.mag = 0
  ELSE IsFin(self.re) /\ self.re.mag = 0 /\ IsFin(self.im) /\ self.im.mag = 0

\* C7: for both representations sinc(z) is exactly 1 when z is zero, with no
\* division, and sin(z) / z otherwise; sinhc, cosc and coshc follow the same
\* rule with sinh, cos and cosh.
C7_Cardinal ==
  /\ op \in {"sinc", "sinhc", "cosc", "coshc"} /\ SelfIsZero =>
       out = one(rep) /\ path = "one"
  /\ op \in {"sinc", "sinhc", "cosc", "coshc"} /\ ~SelfIsZero => path = "div"
  /\ op = "sinc" /\ ~SelfIsZero => out = div(rep, sin(rep, self), self)
  /\ op = "sinhc" /\ ~SelfIsZero => out = div(rep, sinh(rep, self), self)
  /\ op = "cosc" /\ ~SelfIsZero => out = div(rep, cos(rep, self), self)
  /\ op = "coshc" /\ ~SelfIsZero => out = div(rep, cosh(rep, self), self)

C7_Witness == IsCall("Complex", "sinc") /\ self = Complex(PosZero, NegZero) /\ out = c_one

\* C8: for a complex z, atan(Complex(0, 1)) is (0, +Infinity) and
\* atan(Complex(0, -1)) is (0, -Infinity), neither component NaN; every
\* other input goes through the logarithm formula.
C8_AtanPoles ==
  IsCall("Complex", "atan") =>
    LET isI == feq(self.re, PosZero) /\ feq(self.im, Real(1))
        isNegI == feq(self.re, PosZero) /\ feq(self.im, Real(-1))
        iz == cmul(c_i, self)
    IN  /\ isI => out = Complex(PosZero, PosInf) /\ path = "pole"
        /\ isNegI => out = Complex(PosZero, NegInf) /\ path = "negpole"
        /\ ~isI /\ ~isNegI =>
             /\ path = "ln"
             /\ out = cdiv(csub(c_ln(cadd(c_one, iz)), c_ln(csub(c_one, iz))),
                           Complex(PosZero, Real(2)))

C8_Witness ==
  IsCall("Complex", "atan") /\ self = Complex(PosZero, Real(1))
    /\ out = Complex(PosZero, PosInf)

\* C9: for a complex z, atanh at its poles is a signed infinity, not NaN:
\* atanh(Complex(1, 0)) = (+Infinity, 0), atanh(Complex(-1, 0)) = (-Infinity, 0).
C9_AtanhPoles ==
  IsCall("Complex", "atanh") =>
    /\ (feq(self.re, Real(1)) /\ feq(self.im, PosZero)) =>
         out = Complex(PosInf, PosZero)
    /\ (feq(self.re, Real(-1)) /\ feq(self.im, PosZero)) =>
         out = Complex(NegInf, PosZero)

C9_Witness ==
  IsCall("Complex", "atanh") /\ self = Complex(Real(-1), PosZero)
    /\ out = Complex(NegInf, PosZero)

\* Whether a component of the receiver is NaN / is infinite.
SelfHasNaN == IF rep = "Real" THEN IsNaN(self) ELSE IsNaN(self.re) \/ IsNaN(self.im)

SelfHasInf == IF rep = "Real" THEN IsInf(self) ELSE IsInf(self.re) \/ IsInf(self.im)

\* C10 as stated: for every scalar of either representation modulus(z) >= 0,
\* and modulus(z) == 0 if and only if every component of z is zero.
C10_Original ==
  op = "modulus" =>
    /\ fge(out, PosZero)
    /\ feq(out, PosZero) <=> SelfIsZero

\* C10 as amended: modulus(z) is NaN when a component of z is NaN and none
\* is infinite, and modulus(z) >= 0 for every other z; modulus(z) == 0 if and
\* only if every component of z is zero; for a real x, modulus(x) = abs(x).
C10_Modulus ==
  op = "modulus" =>
    /\ IsNaN(out) <=> (SelfHasNaN /\ ~SelfHasInf)
    /\ ~IsNaN(out) => fge(out, PosZero) /\ ~out.neg
    /\ feq(out, PosZero) <=> SelfIsZero
    /\ rep = "Real" => out = fabs(self)

C10_Witness ==
  /\ IsCall("Complex", "modulus")
  /\ self = Complex(Fin(FALSE, 1), Fin(TRUE, 1))
  /\ out = Fin(FALSE, 1)

\* f32::MIN_POSITIVE / f64::MIN_POSITIVE: the smallest normal value.
MinPositive == Fin(FALSE, Pow2(Precision - 1))

\* C11 as stated: for either representation to_exp(z) = (m, u) has m >= 0,
\* u of modulus 1 when m is not zero, and u the multiplicative identity when
\* m is zero.
C11_Original ==
  op = "to_exp" =>
    /\ fge(out[1], PosZero)
    /\ ~f_is_zero(out[1]) => modulus(rep, out[2]) = f_one
    /\ f_is_zero(out[1]) => out[2] = one(rep)

\* C11 as amended: to_exp(z) = (m, u) has m NaN or m >= 0, and u the
\* multiplicative identity when m is zero.  For a real z, u is 1 or -1.  For a
\* complex z, m = hypot(re, im) and u = z / m: the modulus of u is within
\* Epsilon of 1 when m is finite and at least MinPositive, and it is not
\* within Epsilon of 1 when m is infinite.
C11_ToExp ==
  op = "to_exp" =>
    /\ IsNaN(out[1]) \/ fge(out[1], PosZero)
    /\ IsNaN(out[1]) <=> (SelfHasNaN /\ ~SelfHasInf)
    /\ f_is_zero(out[1]) => out[2] = one(rep)
    /\ rep = "Real" => out[2] \in {Real(1), Real(-1)}
    /\ rep = "Complex" =>
         /\ out[1] = fhypot(self.re, self.im)
         /\ ~f_is_zero(out[1]) =>
              out[2] = Complex(fdiv(self.re, out[1]), fdiv(self.im, out[1]))
         /\ (IsFin(out[1]) /\ fge(out[1], MinPositive)) =>
              Approx(fhypot(out[2].re, out[2].im), Real(1))
         /\ IsInf(out[1]) => ~Approx(fhypot(out[2].re, out[2].im), Real(1))

\* A unit whose modulus is near 1 but not 1: to_exp(3 + 8i).
C11_Witness ==
  /\ IsCall("Complex", "to_exp")
  /\ self = Complex(Real(3), Real(8))
  /\ fge(out[1], MinPositive)
  /\ fhypot(out[2].re, out[2].im) /= Real(1)
  /\ Approx(fhypot(out[2].re, out[2].im), Real(1))

\* C12: for a complex z = (re, im), is_finite(z) is true if and only if both
\* re and im are finite; an infinite or NaN component in either position
\* makes it false.
C12_ComplexIsFinite ==
  IsCall("Complex", "is_finite") =>
    /\ out \in BOOLEAN
    /\ out <=> (IsFin(self.re) /\ IsFin(self.im))
    /\ (IsInf(self.re) \/ IsNaN(self.re) \/ IsInf(self.im) \/ IsNaN(self.im)) => out = FALSE

C12_Witness ==
  IsCall("Complex", "is_finite") /\ self = Complex(Real(1), NaN) /\ out = FALSE

\* C13: a single-lane operation returns exactly what the scalar operation
\* of the same name returns on the same arguments in the same order:
\* simd_zero() = zero(), simd_one() = one(), is_simd_zero(x) = is_zero(x),
\* simd_unscale(x, factor) = unscale(x, factor).
C13_SimdForwards ==
  /\ op = "simd_zero" =>
       out = zero(rep) /\ out = (IF rep = "Real" THEN PosZero ELSE Complex(PosZero, PosZero))
  /\ op = "simd_one" =>
       out = one(rep) /\ out = (IF rep = "Real" THEN Real(1) ELSE Complex(Real(1), PosZero))
  /\ op = "is_simd_zero" => out = is_zero(rep, self) /\ (out <=> SelfIsZero)
  /\ op = "simd_unscale" =>
       /\ out = unscale(rep, self, arg[1])
       /\ rep = "Real" => out = fdiv(self, arg[1])
       /\ rep = "Complex" => out = Complex(fdiv(self.re, arg[1]), fdiv(self.im, arg[1]))

C13_Witness ==
  /\ IsCall("Complex", "simd_unscale")
  /\ self = Complex(Real(3), Real(-1))
  /\ arg = Some(Fin(TRUE, Quantum \div 2))
  /\ out = Complex(Real(-6), Real(2))

\* |a - b| <= 2 * Epsilon * m for finite a, b and m, computed exactly.
Near(a, b, m) ==
  /\ IsFin(a) /\ IsFin(b) /\ IsFin(m)
  /\ LET d == Key(a) - Key(b)
     IN  (IF d < 0 THEN 0 - d ELSE d) * Pow2(Precision - 1) <= 2 * m.mag

C15_Original ==
  /\ IsCall("Real", "exp") =>
       /\ Approx(c_exp(c_from_real(self)).im, PosZero)
       /\ Approx(c_exp(c_from_real(self)).re, out)
  /\ IsCall("Real", "ln") =>
       /\ Approx(c_ln(c_from_real(self)).im, PosZero)
       /\ Approx(c_ln(c_from_real(self)).re, out)
  /\ IsCall("Real", "sqrt") =>
       /\ Approx(c_sqrt(c_from_real(self)).im, PosZero)
       /\ Approx(c_sqrt(c_from_real(self)).re, out)
  /\ IsCall("Real", "sin") =>
       /\ Approx(c_sin(c_from_real(self)).im, PosZero)
       /\ Approx(c_sin(c_from_real(self)).re, out)

\* C15 as amended: for a real x and z = Complex(x, 0),
\*   exp(z) has the real part exp(x), and the imaginary part +0 when exp(x)
\*     is finite and NaN when exp(x) is infinite or NaN;
\*   ln(z) = (ln(x), +0) when x >= 0 and x is not -0, and (ln(-x), pi) when
\*     x < 0 or x is -0, where the real ln(x) is NaN or -infinity;
\*   sqrt(z) = (sqrt(x), +0) when x is finite and x >= 0, its imaginary part
\*     is NaN for x = +infinity, and it is positive when x < 0, where the
\*     real sqrt(x) is NaN;
\*   sin(z) = (sin(x), 0) with a zero of either sign when x is finite.
C15_RealAxis ==
  /\ IsCall("Real", "exp") =>
       LET c == c_exp(c_from_real(self))
       IN  /\ c.re = out
           /\ IsFin(out) => c.im = PosZero
           /\ ~IsFin(out) => IsNaN(c.im)
  /\ IsCall("Real", "ln") =>
       LET c == c_ln(c_from_real(self))
       IN  /\ (fge(self, PosZero) /\ ~self.neg) => c = Complex(out, PosZero)
           /\ (~IsNaN(self) /\ self.neg) =>
                /\ c = Complex(fln(fabs(self)), f_pi)
                /\ IsNaN(out) \/ out = NegInf
  /\ IsCall("Real", "sqrt") =>
       LET c == c_sqrt(c_from_real(self))
       IN  /\ (IsFin(self) /\ fge(self, PosZero)) => feq(c.re, out) /\ c.im = PosZero
           /\ self = PosInf => c.re = out /\ IsNaN(c.im)
           /\ (~IsNaN(self) /\ Key(self) < 0) =>
                IsNaN(out) /\ ~IsNaN(c.im) /\ Key(c.im) > 0
  /\ IsCall("Real", "sin") =>
       LET c == c_sin(c_from_real(self))
       IN  IsFin(self) => c.re = out /\ f_is_zero(c.im)

\* exp(x) overflows: the complex result has a NaN imaginary part.
C15_Witness ==
  /\ IsCall("Real", "exp")
  /\ self = Real(3)
  /\ out = PosInf
  /\ c_exp(c_from_real(self)) = Complex(PosInf, NaN)

\* |a - b| <= (3 + |l|) * Epsilon * m for finite a, b, l and m, computed exactly.
NearLn(a, b, l, m) ==
  /\ IsFin(a) /\ IsFin(b) /\ IsFin(l) /\ IsFin(m)
  /\ LET d == Key(a) - Key(b)
     IN  (IF d < 0 THEN 0 - d ELSE d) * Pow2(Precision - 1) * Quantum
           <= (3 * Quantum + l.mag) * m.mag

C17_Original ==
  IsCall("Complex", "ln") =>
    /\ out = Complex(fln(fhypot(self.re, self.im)), fatan2(self.im, self.re))
    /\ fge(out.im, fneg(f_pi)) /\ ~feq(out.im, fneg(f_pi))
    /\ fge(f_pi, out.im)
    /\ (fge(PosZero, self.re) /\ ~f_is_zero(self.re) /\ f_is_zero(self.im)) => out.im = f_pi

\* C17 as amended: for a complex z, ln(z) = (ln(modulus(z)), atan2(im, re));
\* its imaginary part is NaN when a component of z is NaN and lies in the
\* closed interval [-pi, pi] otherwise; on the negative real axis it is +pi
\* when im is +0 and -pi when im is -0; it is -pi only for a z whose re and im
\* both carry a negative sign.
C17_LnBranch ==
  IsCall("Complex", "ln") =>
    /\ out = Complex(fln(fhypot(self.re, self.im)), fatan2(self.im, self.re))
    /\ SelfHasNaN <=> IsNaN(out.im)
    /\ ~SelfHasNaN => fge(out.im, fneg(f_pi)) /\ fge(f_pi, out.im)
    /\ (fge(PosZero, self.re) /\ ~f_is_zero(self.re) /\ self.im = PosZero) => out.im = f_pi
    /\ (fge(PosZero, self.re) /\ ~f_is_zero(self.re) /\ self.im = NegZero) =>
         out.im = fneg(f_pi)
    /\ out.im = fneg(f_pi) => self.re.neg /\ self.im.neg

\* Below the cut: ln(-1 - 0i) = (0, -pi).
C17_Witness ==
  /\ IsCall("Complex", "ln")
  /\ self = Complex(Real(-1), NegZero)
  /\ out = Complex(PosZero, fneg(f_pi))

\* The position of a non-NaN float among the floats in increasing order.
UlpIndex(a) ==
  LET m == IF IsInf(a) THEN Ord(MaxMag) + 1 ELSE IF a.mag = 0 THEN 0 ELSE Ord(a.mag)
  IN  IF a.neg THEN 0 - m ELSE m

\* a and b are the same value or neighbouring floats.
WithinUlp(a, b) ==
  \/ a = b
  \/ /\ ~IsNaN(a) /\ ~IsNaN(b)
     /\ UlpIndex(a) - UlpIndex(b) \in {-1, 0, 1}

Scalars(r) == IF r = "Real" THEN Floats ELSE [re : Floats, im : Floats]

\* Whether every component of the receiver is finite.
SelfIsFinite == IF rep = "Real" THEN IsFin(self) ELSE IsFin(self.re) /\ IsFin(self.im)

C20_Pure ==
  /\ [](\A t \in Threads :
          thr[t].pc = "returned" =>
            thr[t].out = Some(to_exp(thr[t].rep, thr[t].self).ret))
  /\ [][\A t \in Threads : thr'[t].self = thr[t].self /\ thr'[t].rep = thr[t].rep]_vars
  /\ [][\A t \in Threads : \A u \in Threads \ {t} :
          thr'[t] /= thr[t] => thr'[u] = thr[u]]_vars

\* Two calls on different complex values, one returned while the other is
\* between the statements of its body.
C20_Witness ==
  /\ op = "threads"
  /\ thr[1].pc = "returned"
  /\ thr[2].pc = "branch"
  /\ thr[1].rep = "Complex" /\ thr[2].rep = "Complex"
  /\ thr[1].self /= thr[2].self
  /\ thr[1].out = Some(to_exp("Complex", thr[1].self).ret)

(***************************************************************************)
(* The primitive integer types (general/subset.rs, general/one_operator.rs *)
(* and structure/monoid.rs).  u8, i8 and u16 are modelled at their width:  *)
(* a value is the integer it denotes, and a cast or an operation reduces   *)
(* its result modulo 2^Bits into the range of the target type.             *)
(***************************************************************************)
IntTypes == {"u8", "i8", "u16"}

IsSigned(t) == t = "i8"

Bits(t) == IF t = "u16" THEN 16 ELSE 8

IntValues(t) ==
  IF IsSigned(t)
    THEN (0 - Pow2(Bits(t) - 1)) .. (Pow2(Bits(t) - 1) - 1)
    ELSE 0 .. (Pow2(Bits(t)) - 1)

\* `v as t` between integer types: the low Bits(t) bits of v, read in
\* two's complement when t is signed.
as_int(t, v) ==
  LET m == v % Pow2(Bits(t))
  IN  IF IsSigned(t) /\ m >= Pow2(Bits(t) - 1) THEN m - Pow2(Bits(t)) ELSE m

\* The pairs impl_subset! is invoked with: an unsigned type is declared a
\* subset of every type, a signed type of the signed types only.
IsSubsetOf(subset, superset) == IsSigned(subset) => IsSigned(superset)

\* impl_subset!: the three methods of SubsetOf<$superset> for $subset.
is_in_subset(subset, element) == TRUE

from_superset_unchecked(subset, element) == as_int(subset, element)

\* SubsetOf::from_superset, the provided method.
from_superset(subset, element) ==
  IF is_in_subset(subset, element)
    THEN Some(from_superset_unchecked(subset, element))
    ELSE None

\* SupersetOf<SS> for SP, the blanket implementation.
to_subset(subset, element) == from_superset(subset, element)

InitInt ==
  /\ rep \in IntTypes
  /\ self \in IntValues(rep)
  /\ op = "init"
  /\ arg = None
  /\ out = <<>>
  /\ path = ""
  /\ thr = <<>>

\* SS::from_superset(&self) for a declared subset type SS of the type of self.
FromSuperset ==
  \E subset \in IntTypes :
    /\ IsSubsetOf(subset, rep)
    /\ Call2("from_superset", subset, from_superset(subset, self))

\* self.to_subset::<SS>().
ToSubset ==
  \E subset \in IntTypes :
    /\ IsSubsetOf(subset, rep)
    /\ Call2("to_subset", subset, to_subset(subset, self))

\* The operators of the algebraic structures.
Operators == {"Additive", "Multiplicative"}

\* Identity<O>::id(): zero for the addition, one for the multiplication.
identity(o) == IF o = "Additive" THEN 0 ELSE 1

\* impl_magma!: operate is the add or the mul of the integer type t, whose
\* result is kept in the width of t.
\* Faulty variant of operate: the two operators are exchanged.
operate_exchanged(o, t, a, b) ==
  IF o = "Additive" THEN as_int(t, a * b) ELSE as_int(t, a + b)

operate(o, t, a, b) ==
  IF o = "Additive" THEN as_int(t, a + b) ELSE as_int(t, a * b)

\* MonoidApprox::prop_operating_identity_is_noop_approx; the approximate
\* operation and the approximate equality of an integer type are its exact
\* ones.
prop_operating_identity_is_noop_approx(o, t, a) ==
  /\ operate(o, t, a, identity(o)) = a
  /\ operate(o, t, identity(o), a) = a

\* Monoid::prop_operating_identity_is_noop.
prop_operating_identity_is_noop(o, t, a) ==
  /\ operate(o, t, a, identity(o)) = a
  /\ operate(o, t, identity(o), a) = a

\* AbstractMonoid::prop_operating_identity_element_is_noop.
prop_operating_identity_element_is_noop(o, t, a) ==
  /\ operate(o, t, a, identity(o)) = a
  /\ operate(o, t, identity(o), a) = a

\* The property checks of check_int!, for either operator.
PropOperatingIdentityIsNoopApprox ==
  \E o \in Operators :
    Call2("prop_operating_identity_is_noop_approx", o,
          prop_operating_identity_is_noop_approx(o, rep, self))

PropOperatingIdentityIsNoop ==
  \E o \in Operators :
    Call2("prop_operating_identity_is_noop", o,
          prop_operating_identity_is_noop(o, rep, self))

\* impl_monoid! makes the unsigned types abstract monoids.
PropOperatingIdentityElementIsNoop ==
  \E o \in Operators :
    /\ ~IsSigned(rep)
    /\ Call2("prop_operating_identity_element_is_noop", o,
             prop_operating_identity_element_is_noop(o, rep, self))

NextInt ==
  \/ FromSuperset
  \/ ToSubset
  \/ PropOperatingIdentityIsNoopApprox
  \/ PropOperatingIdentityIsNoop
  \/ PropOperatingIdentityElementIsNoop

SpecInt == InitInt /\ [][NextInt]_vars

\* An integer e has an equivalent in the type t when t has a value that
\* denotes e.
HasEquivalent(t, e) == e \in IntValues(t)

\* C21 as stated: from_superset(e) is None whenever e has no equivalent in
\* the subset type and Some(the equivalent value) otherwise, and to_subset
\* gives the same answer, for the pairs of primitive types of impl_subset!.
C21_FromSuperset ==
  op \in {"from_superset", "to_subset"} =>
    /\ out = IF HasEquivalent(arg[1], self) THEN Some(self) ELSE None
    /\ out = from_superset(arg[1], self)

C23_FusedPairs ==
  /\ op = "sin_cos" => out = <<sin(rep, self), cos(rep, self)>>
  /\ op = "sinh_cosh" => out = <<sinh(rep, self), cosh(rep, self)>>

\* C23 is exercised by sinh_cosh(1 - 0.5i), whose cosh has a negative
\* imaginary part.
C23_Witness ==
  /\ op = "sinh_cosh"
  /\ rep = "Complex"
  /\ self = Complex(Real(1), Fin(TRUE, Quantum \div 2))
  /\ out[2].im.neg /\ out[2].im.mag > 0
  /\ out[1] = c_sinh(self)

\* a and b are the same number: equal under ==, or both NaN.
SameNumber(a, b) == (IsNaN(a) /\ IsNaN(b)) \/ feq(a, b)

SameComplex(a, b) == SameNumber(a.re, b.re) /\ SameNumber(a.im, b.im)

\* 2^re (cos(im ln 2) + i sin(im ln 2)), the polar form C24 names.
Exp2Polar(z) ==
  complex_from_polar(fexp2(z.re), fmul(z.im, fln(fadd(f_one, f_one))))

\* C24 as stated: for every complex z, exp2(z) is powc with base 2 + 0i and
\* exponent z, which is from_polar(2^re, im * ln 2), and exp2(0) = 1.
C24_Original ==
  IsCall("Complex", "exp2") =>
    /\ out = c_powc(Complex(Real(2), f_zero), self)
    /\ SameComplex(out, Exp2Polar(self))
    /\ self = c_zero => out = c_one

\* C24, amended: for every complex z, exp2(z) is powc with base 2 + 0i and
\* exponent z (2 raised to z, not z raised to 2); when the real part of z is
\* finite this is the number from_polar(2^re, im * ln 2), and
\* exp2(0) = 1 + 0i; when the real part of z is infinite, exp2(z) is
\* NaN + NaN i.
C24_Exp2 ==
  IsCall("Complex", "exp2") =>
    /\ out = c_powc(Complex(Real(2), f_zero), self)
    /\ IsFin(self.re) => SameComplex(out, Exp2Polar(self))
    /\ IsInf(self.re) => IsNaN(out.re) /\ IsNaN(out.im)
    /\ self = c_zero => out = c_one
    /\ c_is_zero(self) => c_eq(out, c_one)

\* C24 is exercised by exp2(3 - 0.5i), which is neither (3 - 0.5i)^2 nor
\* real, and by an infinite real part.
C24_Witness ==
  /\ IsCall("Complex", "exp2")
  /\ self = Complex(Real(3), Fin(TRUE, Quantum \div 2))
  /\ IsFin(out.re) /\ ~out.re.neg /\ out.re.mag > 0
  /\ out.im.neg /\ out.im.mag > 0
  /\ out /= cmul(self, self)

\* C25 as stated: for every real x, argument(x) is argument(Complex(x, 0))
\* and modulus(x) is modulus(Complex(x, 0)) (the same number, or NaN on
\* both sides); at x = 0 both representations give modulus 0 and argument 0.
C25_PolarView ==
  IsCall("Real", "to_polar") =>
    /\ SameNumber(out[1], c_modulus(c_from_real(self)))
    /\ SameNumber(out[2], c_argument(c_from_real(self)))
    /\ f_is_zero(self) =>
         /\ f_is_zero(out[1]) /\ f_is_zero(out[2])
         /\ f_is_zero(c_modulus(c_from_real(self)))
         /\ f_is_zero(c_argument(c_from_real(self)))

\* C26: for every real x, to_exp(x) = (m, u) has m the number modulus(x)
\* (NaN for a NaN x), u one of 1 and -1, and u scaled by m is x, sign of
\* zero included.
C26_Lossless ==
  IsCall("Real", "to_exp") =>
    /\ SameNumber(out[1], f_modulus(self))
    /\ out[2] \in {Real(1), Real(-1)}
    /\ f_scale(out[2], out[1]) = self

\* C26 is exercised by to_exp(-3) = (3, -1).
C26_Witness ==
  /\ IsCall("Real", "to_exp")
  /\ self = Real(-3)
  /\ out = <<Real(3), Real(-1)>>
  /\ f_scale(out[2], out[1]) = Real(-3)
=============================================================================
